---- MODULE Spec2Model ----
(***************************************************************************)
(* The service worker of storymap-pwa (src/sw.js): the versioned cache     *)
(* lifecycle (install, activate), the fetch handler with its two           *)
(* strategies (network-first for the API origin, cache-first for the       *)
(* rest), and the background-sync replay of the favorites queue.           *)
(*                                                                         *)
(* Promises are modelled by task positions: every await/then boundary of   *)
(* the source is one step, and the platform's answer to each asynchronous  *)
(* call (fetch, caches.open/match/put/delete, IndexedDB requests) is drawn *)
(* nondeterministically from the outcomes the platform can produce.        *)
(***************************************************************************)
EXTENDS Integers, Sequences, FiniteSets, TLC

VARIABLES
    swState,     \* lifecycle position of the worker
    claimed,     \* self.clients.claim() has been called
    cacheNames,  \* CacheStorage: names of the existing caches, in creation order
    cacheData,   \* CacheStorage: name -> request key -> entry
    act,         \* the activate handler's waitUntil promise
    inst,        \* the install handler's waitUntil promise
    task,        \* one record per fetch event being handled
    queue,       \* IndexedDB 'favorites' object store: id -> record
    sync,        \* the syncStories() call in flight
    notif,       \* the push event, its notification and the click on it
    windows      \* the open window clients, most recently focused first

vars == <<swState, claimed, cacheNames, cacheData, act, inst, task, queue, sync,
          notif, windows>>
cacheVars == <<swState, claimed, cacheNames, cacheData, act, inst, task>>
syncVars == <<queue, sync>>
uiVars == <<notif, windows>>

(***************************************************************************)
(* Bounds of the model.                                                    *)
(***************************************************************************)
MaxTasks == 1        \* fetch events handled concurrently
NumBodies == 1       \* distinct response bodies the network can serve
MaxRecords == 2      \* records the favorites queue can hold

(***************************************************************************)
(* Program constants.                                                      *)
(***************************************************************************)
CACHE_NAME == "storymap-v1"
STATIC_CACHE == "storymap-static-v1"
DYNAMIC_CACHE == "storymap-dynamic-v1"
STATIC_ASSETS == <<"/", "/index.html", "/style.css", "/main.js", "/favicon.png">>
API_ORIGIN == "https://story-api.dicoding.dev"
OFFLINE_MESSAGE == "Offline - Data tidak tersedia"

\* A cache left by a prior version, and the origin the worker is served from.
OLD_CACHE == "storymap-static-v0"
SELF_ORIGIN == "https://storymap.example"
CDN_ORIGIN == "https://cdn.example"

CacheNameSet == {STATIC_CACHE, DYNAMIC_CACHE, CACHE_NAME, OLD_CACHE}

(***************************************************************************)
(* Requests and responses.                                                 *)
(***************************************************************************)
Url(o, p) == [origin |-> o, path |-> p]
ApiUrl == Url(API_ORIGIN, "/v1/stories")
AssetUrl == Url(SELF_ORIGIN, "/images/logo.png")
CdnUrl == Url(CDN_ORIGIN, "/leaflet.js")
Urls == {ApiUrl, AssetUrl, CdnUrl}
ShellUrls == {Url(SELF_ORIGIN, STATIC_ASSETS[i]) : i \in DOMAIN STATIC_ASSETS}
Keys == Urls \cup ShellUrls
Methods == {"GET", "POST"}
Requests == [method : Methods, url : Urls]
NoRequest == [method |-> "", url |-> Url("", "")]

BodyNames == <<"body1", "body2", "body3", "body4">>
Bodies == {BodyNames[i] : i \in 1..NumBodies}
Resp(s, ty, b) == [status |-> s, type |-> ty, body |-> b]
NoResponse == Resp(0, "none", "")
\* new Response(JSON.stringify({...}), {headers: {'Content-Type': 'application/json'}})
\* JSON.stringify of an object with a boolean `error` and a string `message`
JsonStringify(o) ==
    "{\"error\":" \o (IF o.error THEN "true" ELSE "false")
        \o ",\"message\":\"" \o o.message \o "\"}"
OfflineResponse ==
    Resp(200, "default", JsonStringify([error |-> TRUE, message |-> OFFLINE_MESSAGE]))

\* What fetch(request) can resolve with, by the origin of the request.
NetResponses(url) ==
    IF url.origin = API_ORIGIN
    THEN {Resp(200, "cors", b) : b \in Bodies}
            \cup {Resp(206, "cors", "partial"), Resp(500, "cors", "error")}
    ELSE IF url.origin = SELF_ORIGIN
    THEN {Resp(200, "basic", b) : b \in Bodies} \cup {Resp(404, "basic", "notfound")}
    ELSE {Resp(200, "cors", "lib"), Resp(0, "opaque", "")}

(***************************************************************************)
(* CacheStorage.                                                           *)
(***************************************************************************)
Entry(m, r) == [method |-> m, resp |-> r]
NoEntry == Entry("", NoResponse)
EmptyCache == [k \in Keys |-> NoEntry]

Exists(name) == \E i \in DOMAIN cacheNames : cacheNames[i] = name

\* caches.match(request): the first cache, in creation order, that holds an
\* entry for the request's URL; only GET requests match.
RECURSIVE MatchFrom(_, _, _, _)
MatchFrom(names, data, req, i) ==
    IF i > Len(names) THEN NoEntry
    ELSE IF req.method = "GET" /\ data[names[i]][req.url] # NoEntry
    THEN data[names[i]][req.url]
    ELSE MatchFrom(names, data, req, i + 1)

CachesMatch(req) == MatchFrom(cacheNames, cacheData, req, 1)

\* caches.open(name): opens the cache, creating it when it does not exist.
OpenedNames(name) == IF Exists(name) THEN cacheNames ELSE Append(cacheNames, name)

\* cache.put(request, response) rejects with a TypeError for a request that
\* is not GET and for a 206 response.
PutAccepted(req, resp) == req.method = "GET" /\ resp.status # 206

\* caches.delete(name)
RemoveName(names, name) == SelectSeq(names, LAMBDA n : n # name)

(***************************************************************************)
(* The favorites queue.                                                    *)
(***************************************************************************)
SYNC_TAG == "sync-stories"
Tags == {SYNC_TAG, "sync-other"}

Ids == 1..MaxRecords
Payloads == {"a", "b"}
Favorite(s, d) == [present |-> TRUE, synced |-> s, data |-> d]
Absent == [present |-> FALSE, synced |-> FALSE, data |-> ""]
Records == {Favorite(s, d) : s \in BOOLEAN, d \in Payloads} \cup {Absent}
NoFavorites == [i \in Ids |-> Absent]

IdleSync ==
    [pc |-> "idle", tag |-> "", settled |-> "none", read |-> FALSE,
     favorites |-> NoFavorites,
     puts |-> {}, wtx |-> 0, wresult |-> "none",
     before |-> NoFavorites, otherWrote |-> FALSE]

\* Unsynced without the filter.
UnsyncedUnfiltered(favorites) == {i \in Ids : favorites[i].present}

\* favorites.filter(f => !f.synced)
Unsynced(favorites) == {i \in Ids : favorites[i].present /\ ~favorites[i].synced}

\* MarkSynced that sets the flag of the first unsynced record only.
MarkSyncedFirstOnly(favorites) ==
    [i \in Ids |->
        IF favorites[i].present /\ ~favorites[i].synced
            /\ \A j \in Ids : (favorites[j].present /\ ~favorites[j].synced) => i <= j
        THEN [favorites[i] EXCEPT !.synced = TRUE]
        ELSE favorites[i]]

\* for (const favorite of unsynced) { favorite.synced = true; ... }
MarkSynced(favorites) ==
    [i \in Ids |-> IF i \in Unsynced(favorites)
                   THEN [favorites[i] EXCEPT !.synced = TRUE]
                   ELSE favorites[i]]

(***************************************************************************)
(* Push payloads, notifications and window clients.                        *)
(***************************************************************************)
MaxWindows == 2      \* window clients open at a time

Undefined == "<undefined>"
Null == "<null>"
NoUrl == Url("", "")
RootUrl == Url(SELF_ORIGIN, "/#/")
StoryUrl == Url(SELF_ORIGIN, "/#/story/1")
BlankUrl == Url("about:", "blank")

\* notification.data: absent, an object without url, an object with url.
NoData == [defined |-> FALSE, url |-> NoUrl]
EmptyData == [defined |-> TRUE, url |-> NoUrl]
UrlData == [defined |-> TRUE, url |-> StoryUrl]

\* A string field of a JSON payload: missing, empty or given.
FieldValues(v) == {Undefined, "", v}

\* event.data: absent; a JSON object; JSON null; another JSON value; text
\* that is not JSON; present but empty.
NoFields ==
    [title |-> Undefined, body |-> Undefined, message |-> Undefined,
     icon |-> Undefined, image |-> Undefined, tag |-> Undefined, data |-> NoData]
ObjectPayloads ==
    {[kind |-> "object", text |-> "{...}", fields |-> f] :
        f \in [title : FieldValues("T"), body : FieldValues("B"),
               message : FieldValues("M"), icon : FieldValues("/icon.png"),
               image : FieldValues("/image.png"), tag : FieldValues("tag-1"),
               data : {NoData, EmptyData, UrlData}]}
OtherPayloads ==
    {[kind |-> "none", text |-> "", fields |-> NoFields],
     [kind |-> "null", text |-> "null", fields |-> NoFields],
     [kind |-> "scalar", text |-> "42", fields |-> NoFields],
     [kind |-> "text", text |-> "Halo", fields |-> NoFields],
     [kind |-> "empty", text |-> "", fields |-> NoFields]}
PushPayloads == ObjectPayloads \cup OtherPayloads

\* JavaScript's a || b on strings
Falsy(v) == v = Undefined \/ v = Null \/ v = ""
Or(a, b) == IF Falsy(a) THEN b ELSE a

DEFAULT_TITLE == "Cerita Baru"
DEFAULT_BODY == "Ada cerita baru yang ditambahkan!"
DEFAULT_ICON == "/favicon.png"
DEFAULT_TAG == "new-story"

\* let notificationData = {...}
DefaultNotificationData ==
    [title |-> DEFAULT_TITLE, body |-> DEFAULT_BODY, icon |-> DEFAULT_ICON,
     badge |-> DEFAULT_ICON, image |-> Undefined, tag |-> DEFAULT_TAG,
     data |-> NoData, requireInteraction |-> FALSE]

\* event.data.json() returns a value (it throws on text that is not JSON),
\* and reading a property of null throws.
JsonThrows(payload) == payload.kind \in {"text", "empty"}
ReadThrows(payload) == payload.kind = "null"

\* The push handler up to showNotification: the defaults, replaced by the
\* decoded fields, or their body replaced by the text when decoding throws.
NotificationData(payload) ==
    IF payload.kind = "none" THEN DefaultNotificationData
    ELSE IF JsonThrows(payload) \/ ReadThrows(payload)
    THEN IF payload.text # ""
         THEN [DefaultNotificationData EXCEPT !.body = payload.text]
         ELSE DefaultNotificationData
    ELSE LET data == payload.fields IN
         [title |-> Or(data.title, DEFAULT_TITLE),
          body |-> Or(Or(data.body, data.message), DEFAULT_BODY),
          icon |-> Or(data.icon, DEFAULT_ICON),
          badge |-> DEFAULT_ICON,
          image |-> Or(data.image, Null),
          tag |-> Or(data.tag, DEFAULT_TAG),
          data |-> IF data.data.defined THEN data.data ELSE EmptyData,
          requireInteraction |-> FALSE]

\* The options given to showNotification.
Notification(nd) ==
    [title |-> nd.title, body |-> nd.body, icon |-> nd.icon, badge |-> nd.badge,
     image |-> nd.image, tag |-> nd.tag, data |-> nd.data,
     requireInteraction |-> nd.requireInteraction,
     actions |-> <<"view", "close">>]

ClientUrls == {RootUrl, StoryUrl, BlankUrl}
WindowLists == UNION {[1..n -> ClientUrls] : n \in 0..MaxWindows}

IdleNotif ==
    [pc |-> "idle", payload |-> [kind |-> "none", text |-> "", fields |-> NoFields],
     displayed |-> <<>>, closed |-> FALSE, action |-> "", data |-> NoData,
     urlToOpen |-> NoUrl, target |-> 0,
     focused |-> <<>>, navigated |-> <<>>, opened |-> <<>>]

(***************************************************************************)
(* Initial state: the worker script has been parsed; the origin may hold   *)
(* caches left by prior versions, in any creation order.                   *)
(***************************************************************************)
Tasks == 1..MaxTasks

Reply(k, r) == [kind |-> k, resp |-> r]
NoReply == Reply("none", NoResponse)
Rejection == Reply("rejected", NoResponse)

IdleTask ==
    [pc |-> "idle", req |-> NoRequest, answered |-> FALSE, reply |-> NoReply,
     net |-> 0, reads |-> 0, fetched |-> NoResponse,
     wstage |-> "none", wcache |-> ""]

\* What a prior version left behind: an asset and an API response.
StaleData ==
    [k \in Keys |->
        IF k = AssetUrl THEN Entry("GET", Resp(200, "basic", "stale"))
        ELSE IF k = ApiUrl THEN Entry("GET", Resp(200, "cors", "stale"))
        ELSE NoEntry]

\* What an earlier run of this version left in its dynamic cache.
PriorDynamicData ==
    [k \in Keys |->
        IF k = ApiUrl THEN Entry("GET", Resp(200, "cors", "prior")) ELSE NoEntry]

InitialData ==
    [n \in CacheNameSet |->
        IF n = OLD_CACHE THEN StaleData
        ELSE IF n = DYNAMIC_CACHE THEN PriorDynamicData
        ELSE EmptyCache]

IsSeqOf(names, S) ==
    /\ Len(names) = Cardinality(S)
    /\ \A n \in S : \E i \in DOMAIN names : names[i] = n

InitialNames ==
    UNION {{names \in [1..Cardinality(S) -> S] : IsSeqOf(names, S)} :
            S \in SUBSET {OLD_CACHE, CACHE_NAME, DYNAMIC_CACHE}}

IdleAct ==
    [pc |-> "idle", toDelete |-> {}, failed |-> FALSE]

IdleInst == [pc |-> "idle", waited |-> FALSE, skipWaiting |-> FALSE]


CacheInit ==
    /\ swState = "parsed"
    /\ claimed = FALSE
    /\ cacheNames \in InitialNames
    /\ cacheData = [n \in CacheNameSet |->
                        IF Exists(n) THEN InitialData[n] ELSE EmptyCache]
    /\ act = IdleAct
    /\ inst = IdleInst
    /\ task = [t \in Tasks |-> IdleTask]

\* InstallEvent without event.waitUntil: the install event does not wait
\* for the population of STATIC_CACHE.
InstallEventNoWaitUntil ==
    /\ swState = "parsed"
    /\ swState' = "installing"
    /\ inst' = [pc |-> "open", waited |-> FALSE, skipWaiting |-> TRUE]
    /\ UNCHANGED <<claimed, cacheNames, cacheData, act, task, queue, sync, uiVars>>

(***************************************************************************)
(* install: event.waitUntil(caches.open(STATIC_CACHE).then(cache =>        *)
(* cache.addAll(STATIC_ASSETS))) and self.skipWaiting().                   *)
(***************************************************************************)
\* The handler runs: caches.open is called, its promise chain is given to
\* waitUntil, and skipWaiting() is called.
InstallEvent ==
    /\ swState = "parsed"
    /\ swState' = "installing"
    /\ inst' = [pc |-> "open", waited |-> TRUE, skipWaiting |-> TRUE]
    /\ UNCHANGED <<claimed, cacheNames, cacheData, act, task, queue, sync, uiVars>>

\* caches.open resolves (creating the cache) or rejects.
InstallOpen ==
    /\ inst.pc = "open"
    /\ \/ /\ cacheNames' = OpenedNames(STATIC_CACHE)
          /\ inst' = [inst EXCEPT !.pc = "addAll"]
       \/ /\ inst' = [inst EXCEPT !.pc = "rejected"]
          /\ UNCHANGED cacheNames
    /\ UNCHANGED <<swState, claimed, cacheData, act, task, queue, sync, uiVars>>

\* What can happen to one asset of cache.addAll: it is fetched and stored,
\* its fetch rejects, its response is not ok, or storing it fails.
AddOutcomes == {"ok", "network", "status", "store"}

ShellResponse == Resp(200, "basic", "shell")

\* The cache after the assets of `added` have been stored.
ShellData(old, added) ==
    [k \in Keys |-> IF k \in added THEN Entry("GET", ShellResponse) ELSE old[k]]

\* InstallAddAll as a loop of cache.add calls: every asset that can be
\* stored is stored, and the step fails when one could not.
InstallAddEach ==
    /\ inst.pc = "addAll"
    /\ \E outcome \in [ShellUrls -> AddOutcomes] :
        /\ cacheData' = [cacheData EXCEPT ![STATIC_CACHE] =
                            ShellData(@, {k \in ShellUrls : outcome[k] = "ok"})]
        /\ inst' = [inst EXCEPT !.pc = IF \A k \in ShellUrls : outcome[k] = "ok"
                                       THEN "fulfilled" ELSE "rejected"]
    /\ UNCHANGED <<swState, claimed, cacheNames, act, task, queue, sync, uiVars>>

\* cache.addAll(STATIC_ASSETS) settles: it fetches every listed asset and
\* stores all of them, or rejects and stores none.
InstallAddAll ==
    /\ inst.pc = "addAll"
    /\ \E outcome \in [ShellUrls -> AddOutcomes] :
        IF \A k \in ShellUrls : outcome[k] = "ok"
        THEN /\ cacheData' = [cacheData EXCEPT ![STATIC_CACHE] = ShellData(@, ShellUrls)]
             /\ inst' = [inst EXCEPT !.pc = "fulfilled"]
        ELSE /\ inst' = [inst EXCEPT !.pc = "rejected"]
             /\ UNCHANGED cacheData
    /\ UNCHANGED <<swState, claimed, cacheNames, act, task, queue, sync, uiVars>>

\* The install event is over when every promise given to waitUntil has
\* settled: the worker is installed, or redundant when one was rejected.
InstallSettle ==
    /\ swState = "installing"
    /\ inst.waited => inst.pc \in {"fulfilled", "rejected"}
    /\ swState' = IF inst.waited /\ inst.pc = "rejected" THEN "redundant" ELSE "installed"
    /\ UNCHANGED <<claimed, cacheNames, cacheData, act, inst, task, queue, sync, uiVars>>

(***************************************************************************)
(* activate: delete every cache that is not STATIC_CACHE or DYNAMIC_CACHE, *)
(* and claim the clients.                                                  *)
(***************************************************************************)
Quiescent == \A t \in Tasks : task[t].pc = "idle"

\* IsOldCache with || for &&: true of every name.
IsOldCacheEitherName(cacheName) ==
    cacheName # STATIC_CACHE \/ cacheName # DYNAMIC_CACHE

\* cacheNames.filter(...)
IsOldCache(cacheName) == cacheName # STATIC_CACHE /\ cacheName # DYNAMIC_CACHE

\* The handler runs: caches.keys() is called and self.clients.claim() is
\* returned.  A worker restarted for the same version runs it again.
ActivateEvent ==
    /\ \/ swState = "installed"
       \/ /\ swState = "activated" /\ Quiescent
          /\ act.toDelete = {}
    /\ swState' = "activating"
    /\ claimed' = TRUE
    /\ act' = [pc |-> "keys", toDelete |-> {}, failed |-> FALSE]
    /\ UNCHANGED <<cacheNames, cacheData, task, inst, queue, sync, uiVars>>

\* caches.keys() resolves; one caches.delete per filtered name is issued.
ActivateKeys ==
    /\ act.pc = "keys"
    /\ \/ act' = [act EXCEPT !.pc = "deleting",
                     !.toDelete = {cacheNames[i] : i \in
                         {j \in DOMAIN cacheNames : IsOldCache(cacheNames[j])}}]
       \/ act' = [act EXCEPT !.pc = "deleting", !.failed = TRUE]
    /\ UNCHANGED <<swState, claimed, cacheNames, cacheData, task, inst, queue, sync, uiVars>>

\* One caches.delete(cacheName) settles.
ActivateDelete(n) ==
    /\ n \in act.toDelete
    /\ \/ /\ cacheNames' = RemoveName(cacheNames, n)
          /\ cacheData' = [cacheData EXCEPT ![n] = EmptyCache]
          /\ act' = [act EXCEPT !.toDelete = @ \ {n}]
       \/ /\ act' = [act EXCEPT !.toDelete = @ \ {n}, !.failed = TRUE]
          /\ UNCHANGED <<cacheNames, cacheData>>
    /\ UNCHANGED <<swState, claimed, task, inst, queue, sync, uiVars>>

\* Promise.all settles, and with it the waitUntil promise: it is fulfilled
\* when every delete has resolved and rejected as soon as one has rejected,
\* the others still pending.  The worker is activated either way.
ActivateSettle ==
    /\ act.pc = "deleting"
    /\ act.failed \/ act.toDelete = {}
    /\ act' = [act EXCEPT !.pc = IF act.failed THEN "rejected" ELSE "fulfilled"]
    /\ swState' = "activated"
    /\ UNCHANGED <<claimed, cacheNames, cacheData, task, inst, queue, sync, uiVars>>

(***************************************************************************)
(* fetch: the handler and the promise chains it passes to respondWith.     *)
(* Fetch events are dispatched to an activated worker only.                *)
(***************************************************************************)
IsApi(url) == url.origin = API_ORIGIN

\* FetchEvent without the method check.
FetchEventAnyMethod(t, request) ==
    /\ swState = "activated"
    /\ task[t].pc = "idle"
    /\ \A u \in Tasks : u < t => task[u].pc # "idle"
    /\ task' = [task EXCEPT ![t] =
            IF IsApi(request.url)
            THEN [IdleTask EXCEPT !.pc = "nf_fetch", !.req = request,
                                  !.answered = TRUE, !.net = 1]
            ELSE [IdleTask EXCEPT !.pc = "cf_match", !.req = request,
                                  !.answered = TRUE, !.reads = 1]]
    /\ UNCHANGED <<swState, claimed, cacheNames, cacheData, act, inst, queue, sync, uiVars>>

\* The synchronous part of the handler: a request that is not GET returns
\* without respondWith; an API request calls fetch(request); any other
\* request calls caches.match(request).
FetchEvent(t, request) ==
    /\ swState = "activated"
    /\ task[t].pc = "idle"
    /\ \A u \in Tasks : u < t => task[u].pc # "idle"
    /\ task' = [task EXCEPT ![t] =
            IF request.method # "GET"
            THEN [IdleTask EXCEPT !.pc = "done", !.req = request]
            ELSE IF IsApi(request.url)
            THEN [IdleTask EXCEPT !.pc = "nf_fetch", !.req = request,
                                  !.answered = TRUE, !.net = 1]
            ELSE [IdleTask EXCEPT !.pc = "cf_match", !.req = request,
                                  !.answered = TRUE, !.reads = 1]]
    /\ UNCHANGED <<swState, claimed, cacheNames, cacheData, act, inst, queue, sync, uiVars>>

\* NetFirstFetch with the clone handed to caches.open(STATIC_CACHE).
NetFirstFetchIntoStatic(t) ==
    /\ task[t].pc = "nf_fetch"
    /\ \/ \E response \in NetResponses(task[t].req.url) :
            task' = [task EXCEPT ![t].pc = "done",
                                 ![t].fetched = response,
                                 ![t].reply = Reply("response", response),
                                 ![t].wstage = "open",
                                 ![t].wcache = STATIC_CACHE]
       \/ task' = [task EXCEPT ![t].pc = "nf_match", ![t].reads = @ + 1]
    /\ UNCHANGED <<swState, claimed, cacheNames, cacheData, act, inst, queue, sync, uiVars>>

\* Network-first: fetch(request) settles.  Fulfilled: the clone is handed to
\* caches.open(DYNAMIC_CACHE) and the response is returned.  Rejected: the
\* catch handler calls caches.match(request).
NetFirstFetch(t) ==
    /\ task[t].pc = "nf_fetch"
    /\ \/ \E response \in NetResponses(task[t].req.url) :
            task' = [task EXCEPT ![t].pc = "done",
                                 ![t].fetched = response,
                                 ![t].reply = Reply("response", response),
                                 ![t].wstage = "open",
                                 ![t].wcache = DYNAMIC_CACHE]
       \/ task' = [task EXCEPT ![t].pc = "nf_match", ![t].reads = @ + 1]
    /\ UNCHANGED <<swState, claimed, cacheNames, cacheData, act, inst, queue, sync, uiVars>>

\* Network-first: caches.match(request) settles.  A cached response is
\* returned; without one the offline response is built; a rejection of
\* caches.match is not caught and rejects the respondWith promise.
NetFirstMatch(t) ==
    /\ task[t].pc = "nf_match"
    /\ \/ LET cachedResponse == CachesMatch(task[t].req).resp IN
            task' = [task EXCEPT ![t].pc = "done",
                                 ![t].reply =
                                    IF cachedResponse # NoResponse
                                    THEN Reply("response", cachedResponse)
                                    ELSE Reply("response", OfflineResponse)]
       \/ task' = [task EXCEPT ![t].pc = "done", ![t].reply = Rejection]
    /\ UNCHANGED <<swState, claimed, cacheNames, cacheData, act, inst, queue, sync, uiVars>>

\* CacheFirstMatch that calls fetch(request) whether or not a response
\* was cached.
CacheFirstMatchThenFetch(t) ==
    /\ task[t].pc = "cf_match"
    /\ \/ task' = [task EXCEPT ![t].pc = "cf_fetch", ![t].net = @ + 1]
       \/ task' = [task EXCEPT ![t].pc = "done", ![t].reply = Rejection]
    /\ UNCHANGED <<swState, claimed, cacheNames, cacheData, act, inst, queue, sync, uiVars>>

\* Cache-first: caches.match(request) settles.  A cached response is
\* returned; without one fetch(request) is called.
CacheFirstMatch(t) ==
    /\ task[t].pc = "cf_match"
    /\ \/ LET cachedResponse == CachesMatch(task[t].req).resp IN
            task' = [task EXCEPT ![t] =
                        IF cachedResponse # NoResponse
                        THEN [@ EXCEPT !.pc = "done",
                                       !.reply = Reply("response", cachedResponse)]
                        ELSE [@ EXCEPT !.pc = "cf_fetch", !.net = @ + 1]]
       \/ task' = [task EXCEPT ![t].pc = "done", ![t].reply = Rejection]
    /\ UNCHANGED <<swState, claimed, cacheNames, cacheData, act, inst, queue, sync, uiVars>>

\* NotValid without the type check.
NotValidStatusOnly(response) == response = NoResponse \/ response.status # 200

\* !response || response.status !== 200 || response.type !== 'basic'
NotValid(response) ==
    response = NoResponse \/ response.status # 200 \/ response.type # "basic"

\* CacheFirstFetch that answers a failed fetch with the offline response.
CacheFirstFetchOfflineFallback(t) ==
    /\ task[t].pc = "cf_fetch"
    /\ \/ \E response \in NetResponses(task[t].req.url) :
            task' = [task EXCEPT ![t] =
                        IF NotValid(response)
                        THEN [@ EXCEPT !.pc = "done", !.fetched = response,
                                       !.reply = Reply("response", response)]
                        ELSE [@ EXCEPT !.pc = "done", !.fetched = response,
                                       !.reply = Reply("response", response),
                                       !.wstage = "open",
                                       !.wcache = STATIC_CACHE]]
       \/ task' = [task EXCEPT ![t].pc = "done",
                                ![t].reply = Reply("response", OfflineResponse)]
    /\ UNCHANGED <<swState, claimed, cacheNames, cacheData, act, inst, queue, sync, uiVars>>

\* Cache-first: fetch(request) settles.  A valid response is cloned into
\* STATIC_CACHE; every response is returned; a rejection propagates.
CacheFirstFetch(t) ==
    /\ task[t].pc = "cf_fetch"
    /\ \/ \E response \in NetResponses(task[t].req.url) :
            task' = [task EXCEPT ![t] =
                        IF NotValid(response)
                        THEN [@ EXCEPT !.pc = "done", !.fetched = response,
                                       !.reply = Reply("response", response)]
                        ELSE [@ EXCEPT !.pc = "done", !.fetched = response,
                                       !.reply = Reply("response", response),
                                       !.wstage = "open",
                                       !.wcache = STATIC_CACHE]]
       \/ task' = [task EXCEPT ![t].pc = "done", ![t].reply = Rejection]
    /\ UNCHANGED <<swState, claimed, cacheNames, cacheData, act, inst, queue, sync, uiVars>>

\* WriteOpen whose rejection reaches the respondWith promise.
WriteOpenFailureSurfaces(t) ==
    /\ task[t].wstage = "open"
    /\ \/ /\ cacheNames' = OpenedNames(task[t].wcache)
          /\ task' = [task EXCEPT ![t].wstage = "put"]
       \/ /\ task' = [task EXCEPT ![t].wstage = "failed", ![t].reply = Rejection]
          /\ UNCHANGED cacheNames
    /\ UNCHANGED <<swState, claimed, cacheData, act, inst, queue, sync, uiVars>>

\* The detached write: caches.open(name) settles.  Nothing handles its
\* rejection.
WriteOpen(t) ==
    /\ task[t].wstage = "open"
    /\ \/ /\ cacheNames' = OpenedNames(task[t].wcache)
          /\ task' = [task EXCEPT ![t].wstage = "put"]
       \/ /\ task' = [task EXCEPT ![t].wstage = "failed"]
          /\ UNCHANGED cacheNames
    /\ UNCHANGED <<swState, claimed, cacheData, act, inst, queue, sync, uiVars>>

\* The detached write: cache.put(request, responseToCache) settles.
WritePut(t) ==
    /\ task[t].wstage = "put"
    /\ \/ /\ PutAccepted(task[t].req, task[t].fetched)
          /\ cacheData' = [cacheData EXCEPT ![task[t].wcache][task[t].req.url] =
                                Entry(task[t].req.method, task[t].fetched)]
          /\ task' = [task EXCEPT ![t].wstage = "stored"]
       \/ /\ task' = [task EXCEPT ![t].wstage = "failed"]
          /\ UNCHANGED cacheData
    /\ UNCHANGED <<swState, claimed, cacheNames, act, inst, queue, sync, uiVars>>

\* The event is over and its detached write has settled.
TaskEnd(t) ==
    /\ task[t].pc = "done"
    /\ task[t].wstage \notin {"open", "put"}
    /\ task' = [task EXCEPT ![t] = IdleTask]
    /\ UNCHANGED <<swState, claimed, cacheNames, cacheData, act, inst, queue, sync, uiVars>>

Next ==
    \/ InstallEvent
    \/ InstallOpen
    \/ InstallAddAll
    \/ InstallSettle
    \/ ActivateEvent
    \/ ActivateKeys
    \/ \E n \in CacheNameSet : ActivateDelete(n)
    \/ ActivateSettle
    \/ \E t \in Tasks, request \in Requests : FetchEvent(t, request)
    \/ \E t \in Tasks : NetFirstFetch(t)
    \/ \E t \in Tasks : NetFirstMatch(t)
    \/ \E t \in Tasks : CacheFirstMatch(t)
    \/ \E t \in Tasks : CacheFirstFetch(t)
    \/ \E t \in Tasks : WriteOpen(t)
    \/ \E t \in Tasks : WritePut(t)
    \/ \E t \in Tasks : TaskEnd(t)

Init ==
    /\ CacheInit
    /\ queue = NoFavorites /\ sync = IdleSync
    /\ notif = IdleNotif /\ windows = <<>>
Spec == Init /\ [][Next]_vars

(***************************************************************************)
(* sync: the sync handler and syncStories().                               *)
(***************************************************************************)
\* The sync handler: only the sync-stories tag calls syncStories(), which
\* calls indexedDB.open.
SyncEvent(tag) ==
    /\ sync.pc = "idle"
    /\ sync' = IF tag = SYNC_TAG
               THEN [IdleSync EXCEPT !.pc = "opening", !.tag = tag,
                                     !.settled = "pending"]
               ELSE [IdleSync EXCEPT !.tag = tag]
    /\ UNCHANGED <<queue, cacheVars, uiVars>>

\* indexedDB.open settles.  On success the read transaction is created and
\* getAll() issued; an open error, or a database without the favorites
\* store (db.transaction throws), is caught and rethrown.
SyncOpen ==
    /\ sync.pc = "opening"
    /\ \/ sync' = [sync EXCEPT !.pc = "reading"]
       \/ sync' = [sync EXCEPT !.pc = "done", !.settled = "rejected"]
    /\ UNCHANGED <<queue, cacheVars, uiVars>>

\* getAllRequest.onsuccess: with unsynced records a readwrite transaction is
\* created and one put per unsynced record is queued on it, each carrying
\* the record as read with synced set; without any, resolve().
SyncGetAllSuccess ==
    /\ sync.pc = "reading"
    /\ LET favorites == queue
           unsynced == Unsynced(favorites) IN
        sync' = IF Cardinality(unsynced) > 0
                THEN [sync EXCEPT !.pc = "writing", !.read = TRUE,
                                  !.favorites = MarkSynced(favorites),
                                  !.puts = unsynced,
                                  !.wtx = @ + 1,
                                  !.before = queue]
                ELSE [sync EXCEPT !.pc = "done", !.settled = "resolved",
                                  !.read = TRUE,
                                  !.favorites = favorites,
                                  !.before = queue]
    /\ UNCHANGED <<queue, cacheVars, uiVars>>

\* getAllRequest.onerror
SyncGetAllError ==
    /\ sync.pc = "reading"
    /\ sync' = [sync EXCEPT !.pc = "done", !.settled = "rejected"]
    /\ UNCHANGED <<queue, cacheVars, uiVars>>

\* The write transaction commits: every queued put takes effect, and
\* writeTransaction.oncomplete resolves.
SyncWriteComplete ==
    /\ sync.pc = "writing"
    /\ queue' = [i \in Ids |-> IF i \in sync.puts THEN sync.favorites[i] ELSE queue[i]]
    /\ sync' = [sync EXCEPT !.pc = "done", !.settled = "resolved",
                            !.wresult = "complete"]
    /\ UNCHANGED <<cacheVars, uiVars>>

\* A put request fails: its error event bubbles to writeTransaction.onerror,
\* which rejects, and the transaction is aborted with nothing written.
SyncWriteError ==
    /\ sync.pc = "writing"
    /\ sync' = [sync EXCEPT !.pc = "done", !.settled = "rejected",
                            !.wresult = "error"]
    /\ UNCHANGED <<queue, cacheVars, uiVars>>

\* The transaction is aborted without a request error (the commit fails,
\* for instance on quota): only an abort event is fired, nothing is written,
\* and neither oncomplete nor onerror runs.
SyncWriteAbort ==
    /\ sync.pc = "writing"
    /\ sync' = [sync EXCEPT !.pc = "aborted", !.wresult = "abort"]
    /\ UNCHANGED <<queue, cacheVars, uiVars>>

\* The waitUntil promise has settled and the event is over.
SyncEnd ==
    /\ sync.pc = "done"
    /\ sync' = IdleSync
    /\ UNCHANGED <<queue, cacheVars, uiVars>>

\* The application, in its own transaction, creates, updates or deletes a
\* record of the queue.
AppWrite(i, r) ==
    /\ queue[i] # r
    /\ queue' = [queue EXCEPT ![i] = r]
    /\ sync' = IF sync.pc \in {"writing", "done", "aborted"}
               THEN [sync EXCEPT !.otherWrote = TRUE]
               ELSE sync
    /\ UNCHANGED <<cacheVars, uiVars>>

SyncNext ==
    \/ \E tag \in Tags : SyncEvent(tag)
    \/ SyncOpen
    \/ SyncGetAllSuccess
    \/ SyncGetAllError
    \/ SyncWriteComplete
    \/ SyncWriteError
    \/ SyncWriteAbort
    \/ SyncEnd
    \/ \E i \in Ids, r \in Records : AppWrite(i, r)

SyncInit ==
    /\ queue \in [Ids -> Records]
    /\ sync = IdleSync

\* The background sync shares no state with the caches.
SyncSpecInit ==
    /\ SyncInit
    /\ swState = "parsed"
    /\ claimed = FALSE
    /\ cacheNames = <<>>
    /\ cacheData = [n \in CacheNameSet |-> EmptyCache]
    /\ act = IdleAct
    /\ inst = IdleInst
    /\ task = [t \in Tasks |-> IdleTask]
    /\ notif = IdleNotif
    /\ windows = <<>>
SyncSpec == SyncSpecInit /\ [][SyncNext]_vars

(***************************************************************************)
(* Push and notificationclick handlers.                                    *)
(***************************************************************************)
\* self.addEventListener('push', ...): showNotification(title, options)
PushEvent(payload) ==
    /\ swState = "activated"
    /\ notif.pc = "idle"
    /\ notif' = [IdleNotif EXCEPT
                    !.pc = "shown", !.payload = payload,
                    !.displayed = <<Notification(NotificationData(payload))>>]
    /\ UNCHANGED <<windows, cacheVars, syncVars>>

\* event.notification.data?.url || self.location.origin + '/#/'
UrlToOpen(data) == IF data.url # NoUrl THEN data.url ELSE RootUrl

\* self.addEventListener('notificationclick', ...): close the notification
\* (it is no longer displayed; the event keeps its data), stop on the close
\* action, else ask for the window clients.
NotificationClick(action) ==
    /\ notif.pc = "shown"
    /\ notif' = [IdleNotif EXCEPT
                    !.closed = TRUE, !.action = action,
                    !.data = notif.displayed[1].data,
                    !.pc = IF action = "close" THEN "done" ELSE "matchAll",
                    !.urlToOpen = IF action = "close" THEN NoUrl
                                  ELSE UrlToOpen(notif.displayed[1].data)]
    /\ UNCHANGED <<windows, cacheVars, syncVars>>

\* client.url.startsWith(self.location.origin)
StartsWithOrigin(url) == url.origin = SELF_ORIGIN
OwnWindows(clientList) ==
    {i \in 1..Len(clientList) : StartsWithOrigin(clientList[i])}
First(S) == CHOOSE i \in S : \A j \in S : i <= j

\* ClickMatchAll whose loop does not return at the first matching client:
\* it focuses it and still opens a window.
ClickMatchAllAlwaysOpen ==
    /\ notif.pc = "matchAll"
    /\ LET own == OwnWindows(windows) IN
         \/ /\ own # {}
            /\ notif' = [notif EXCEPT !.pc = "focus", !.target = First(own),
                                      !.focused = Append(@, First(own)),
                                      !.opened = Append(@, notif.urlToOpen)]
         \/ /\ own = {}
            /\ \/ notif' = [notif EXCEPT !.pc = "open",
                                         !.opened = Append(@, notif.urlToOpen)]
               \/ notif' = [notif EXCEPT !.pc = "done"]
    /\ UNCHANGED <<windows, cacheVars, syncVars>>

\* clients.matchAll(...).then(clientList => ...): focus the first client
\* whose URL starts with the origin; with none, open a window when
\* clients.openWindow exists.
ClickMatchAll ==
    /\ notif.pc = "matchAll"
    /\ LET own == OwnWindows(windows) IN
         \/ /\ own # {}
            /\ notif' = [notif EXCEPT !.pc = "focus", !.target = First(own),
                                      !.focused = Append(@, First(own))]
         \/ /\ own = {}
            /\ \/ notif' = [notif EXCEPT !.pc = "open",
                                         !.opened = Append(@, notif.urlToOpen)]
               \/ notif' = [notif EXCEPT !.pc = "done"]
    /\ UNCHANGED <<windows, cacheVars, syncVars>>

\* client.focus() settles: resolved, the callback navigates the client when
\* the notification carries a url; rejected, nothing follows.
ClickFocus ==
    /\ notif.pc = "focus"
    /\ \/ /\ notif.data.url # NoUrl
          /\ notif' = [notif EXCEPT
                          !.pc = "navigate",
                          !.navigated = Append(@, [client |-> notif.target,
                                                   url |-> notif.urlToOpen])]
       \/ /\ notif.data.url = NoUrl
          /\ notif' = [notif EXCEPT !.pc = "done"]
       \/ notif' = [notif EXCEPT !.pc = "rejected"]
    /\ UNCHANGED <<windows, cacheVars, syncVars>>

\* client.navigate(urlToOpen) settles: the client shows the URL, or the
\* navigation is refused.
ClickNavigate ==
    /\ notif.pc = "navigate"
    /\ notif' = [notif EXCEPT !.pc = "done"]
    /\ \/ windows' = [windows EXCEPT ![notif.target] = notif.urlToOpen]
       \/ UNCHANGED windows
    /\ UNCHANGED <<cacheVars, syncVars>>

\* clients.openWindow(urlToOpen) settles: a new window, or none.
ClickOpen ==
    /\ notif.pc = "open"
    /\ notif' = [notif EXCEPT !.pc = "done"]
    /\ \/ windows' = <<notif.urlToOpen>> \o windows
       \/ UNCHANGED windows
    /\ UNCHANGED <<cacheVars, syncVars>>

\* The interaction is over; the next push may arrive.
NotifEnd ==
    /\ notif.pc \in {"done", "rejected"}
    /\ Len(windows) <= MaxWindows
    /\ notif' = IdleNotif
    /\ UNCHANGED <<windows, cacheVars, syncVars>>

PushNext ==
    \/ \E payload \in PushPayloads : PushEvent(payload)
    \/ \E action \in {"", "view", "close"} : NotificationClick(action)
    \/ ClickMatchAll
    \/ ClickFocus
    \/ ClickNavigate
    \/ ClickOpen
    \/ NotifEnd

\* An activated worker with its two stores, and any windows open.
PushSpecInit ==
    /\ swState = "activated"
    /\ claimed = TRUE
    /\ cacheNames = <<STATIC_CACHE, DYNAMIC_CACHE>>
    /\ cacheData = [n \in CacheNameSet |->
                        IF n = STATIC_CACHE THEN ShellData(EmptyCache, ShellUrls)
                        ELSE EmptyCache]
    /\ act = [IdleAct EXCEPT !.pc = "fulfilled"]
    /\ inst = [pc |-> "fulfilled", waited |-> TRUE, skipWaiting |-> TRUE]
    /\ task = [t \in Tasks |-> IdleTask]
    /\ queue = NoFavorites
    /\ sync = IdleSync
    /\ notif = IdleNotif
    /\ windows \in WindowLists

PushSpec == PushSpecInit /\ [][PushNext]_vars

\* The platform settles every promise of a detached write.
FairSpec ==
    /\ Spec
    /\ \A t \in Tasks : WF_vars(WriteOpen(t)) /\ WF_vars(WritePut(t))

(***************************************************************************)
(* Properties of the fetch handler.                                        *)
(***************************************************************************)
IsApiGet(t) == task[t].req.method = "GET" /\ IsApi(task[t].req.url)
IsStaticGet(t) == task[t].req.method = "GET" /\ ~IsApi(task[t].req.url)
Held(name, url) == Exists(name) /\ cacheData[name][url] # NoEntry
HeldAnywhere(url) == \E n \in CacheNameSet : Held(n, url)

\* C1: every API GET request is answered with a response, never with a
\* rejection, whatever the network and the cache stores do.
C1_AlwaysAResponse ==
    \A t \in Tasks :
        (IsApiGet(t) /\ task[t].pc = "done") => task[t].reply.kind = "response"

\* C2 as stated: an API GET whose fetch succeeded, with any status, has been
\* answered with the fetched response and, once its pending write has been
\* run, the response has been stored in the dynamic cache.
C2_StoredOnceRun ==
    \A t \in Tasks :
        (IsApiGet(t) /\ task[t].fetched # NoResponse
            /\ task[t].wstage \notin {"open", "put"})
        => /\ task[t].reply = Reply("response", task[t].fetched)
           /\ task[t].wstage = "stored"

\* C2 amended: an API GET whose fetch succeeded is answered with the
\* fetched response, and its pending write eventually either has put an
\* entry equal to that response into the dynamic cache under the request's
\* URL, or has failed (caches.open or cache.put rejected).
C2_StoredOrFailed ==
    \A t \in Tasks :
        /\ [](IsApiGet(t) /\ task[t].fetched # NoResponse
                => task[t].reply = Reply("response", task[t].fetched))
        /\ (IsApiGet(t) /\ task[t].wstage = "open")
            ~> \/ task[t].wstage = "failed"
               \/ /\ task[t].wstage = "stored"
                  /\ Held(DYNAMIC_CACHE, task[t].req.url)
                  /\ cacheData[DYNAMIC_CACHE][task[t].req.url].resp = task[t].fetched

C2_Witness ==
    \E t \in Tasks :
        /\ IsApiGet(t) /\ task[t].wstage = "stored"
        /\ task[t].fetched.status = 500
        /\ cacheData[DYNAMIC_CACHE][task[t].req.url].resp = task[t].fetched

\* C3: when the network fetch of an API GET has failed and the lookup finds
\* no store holding the request's key, the caller receives the offline
\* response and no store is modified.
C3_OfflineWhenNothingCached ==
    [][\A t \in Tasks :
        (task[t].pc = "nf_match" /\ task'[t].pc = "done"
            /\ ~HeldAnywhere(task[t].req.url))
        => /\ task'[t].reply = Reply("response", OfflineResponse)
           /\ UNCHANGED <<cacheNames, cacheData>>]_vars

\* C4: when the network fetch of an API GET has failed and the dynamic
\* cache holds an entry for the request's key, the caller receives that
\* entry.
C4_DynamicEntryReturned ==
    [][\A t \in Tasks :
        (task[t].pc = "nf_match" /\ task'[t].pc = "done"
            /\ Held(DYNAMIC_CACHE, task[t].req.url))
        => task'[t].reply =
                Reply("response", cacheData[DYNAMIC_CACHE][task[t].req.url].resp)]_vars

NoOldCache == \A n \in CacheNameSet : Exists(n) => ~IsOldCache(n)
KeptCaches == <<Exists(STATIC_CACHE), cacheData[STATIC_CACHE],
                Exists(DYNAMIC_CACHE), cacheData[DYNAMIC_CACHE]>>

WasUnsynced(i) == sync.before[i].present /\ ~sync.before[i].synced

\* C7: when a replay has resolved and no other writer has touched the queue
\* since the replay read it, every record read unsynced is synced, and every
\* other record and every other field is as it was read.
C7_AllMarkedSynced ==
    (sync.settled = "resolved" /\ ~sync.otherWrote)
    => \A i \in Ids :
        /\ queue[i].present = sync.before[i].present
        /\ queue[i].data = sync.before[i].data
        /\ queue[i].synced = (sync.before[i].synced \/ WasUnsynced(i))

C7_Witness ==
    /\ sync.settled = "resolved" /\ ~sync.otherWrote
    /\ sync.wresult = "complete"
    /\ \E i \in Ids : WasUnsynced(i)
    /\ \E i \in Ids : sync.before[i].present /\ sync.before[i].synced

\* C8: a replay that has read the queue and found no unsynced record has
\* resolved without creating a write transaction or queueing a put, and has
\* left the queue as it read it.
C8_NothingToSyncNoWrite ==
    (sync.read /\ \A i \in Ids : ~WasUnsynced(i))
    => /\ sync.settled = "resolved"
       /\ sync.wtx = 0
       /\ sync.puts = {}
       /\ sync.wresult = "none"
       /\ ~sync.otherWrote => queue = sync.before

C8_Witness ==
    /\ sync.read /\ sync.settled = "resolved" /\ sync.wtx = 0
    /\ \E i \in Ids : sync.before[i].present
    /\ \A i \in Ids : ~WasUnsynced(i)

\* C9: when the write transaction of a replay has failed, the replay has
\* been rejected, and the queue is as the replay read it.
C9_FailedWriteFailsReplay ==
    sync.wresult \in {"error", "abort"}
    => /\ sync.settled = "rejected"
       /\ ~sync.otherWrote => queue = sync.before

(***************************************************************************)
(* Property of the method check.                                           *)
(***************************************************************************)
\* C10: a request that is not GET is never answered by the handler and
\* causes no fetch, no cache lookup and no cache write; every entry of every
\* cache was stored for a GET request.
C10_OnlyGetIntercepted ==
    /\ \A t \in Tasks :
        (task[t].pc # "idle" /\ task[t].req.method # "GET")
        => /\ ~task[t].answered
           /\ task[t].reply = NoReply
           /\ task[t].net = 0
           /\ task[t].reads = 0
           /\ task[t].wstage = "none"
    /\ \A n \in CacheNameSet, k \in Keys :
        cacheData[n][k] # NoEntry => cacheData[n][k].method = "GET"

C10_Witness ==
    /\ \E t \in Tasks : task[t].pc = "done" /\ task[t].req.method = "POST"
                        /\ IsApi(task[t].req.url)
    /\ Held(DYNAMIC_CACHE, ApiUrl)
    /\ cacheData[DYNAMIC_CACHE][ApiUrl].resp.body = "body1"

(***************************************************************************)
(* Properties of the cache-first path.                                     *)
(***************************************************************************)
IsCacheable(response) == response.status = 200 /\ response.type = "basic"

\* C11: every entry of the shell cache has status 200 and type basic, and
\* so has every entry of any cache under a key the cache-first path serves;
\* a fetched response with another status or another type is returned to
\* the caller and no write is started for it.
C11_OnlyValidCached ==
    /\ \A k \in Keys :
        Held(STATIC_CACHE, k) => IsCacheable(cacheData[STATIC_CACHE][k].resp)
    /\ \A n \in CacheNameSet, k \in {AssetUrl, CdnUrl} :
        Held(n, k) => IsCacheable(cacheData[n][k].resp)
    /\ \A t \in Tasks :
        (IsStaticGet(t) /\ task[t].fetched # NoResponse)
        => /\ task[t].reply = Reply("response", task[t].fetched)
           /\ ~IsCacheable(task[t].fetched) => task[t].wstage = "none"
           /\ task[t].wstage # "none" => task[t].wcache = STATIC_CACHE

C11_Witness ==
    /\ \E t \in Tasks :
        /\ IsStaticGet(t) /\ task[t].pc = "done"
        /\ task[t].fetched = Resp(200, "cors", "lib")
        /\ task[t].reply = Reply("response", task[t].fetched)
    /\ Held(STATIC_CACHE, AssetUrl)
    /\ cacheData[STATIC_CACHE][AssetUrl].resp.body = "body1"

\* C12: when the fetch of a static GET that missed the caches fails, the
\* respondWith promise is rejected, no write is started and no cache
\* changes.
C12_StaticFailurePropagates ==
    [][\A t \in Tasks :
        (task[t].pc = "cf_fetch" /\ task'[t].pc = "done"
            /\ task'[t].fetched = NoResponse)
        => /\ task'[t].reply = Rejection
           /\ task'[t].wstage = "none"
           /\ UNCHANGED <<cacheNames, cacheData>>]_vars

C12_Witness ==
    \E t \in Tasks :
        /\ IsStaticGet(t) /\ task[t].pc = "done" /\ task[t].net = 1
        /\ task[t].fetched = NoResponse
        /\ task[t].reply = Rejection

\* C13: on either strategy, once the fetch has succeeded the caller has the
\* fetched response, while the detached write is pending and after it has
\* failed or succeeded.
C13_WriteNeverReachesCaller ==
    \A t \in Tasks :
        task[t].fetched # NoResponse
        => /\ task[t].pc = "done"
           /\ task[t].reply = Reply("response", task[t].fetched)

C13_Witness ==
    \E t \in Tasks :
        /\ IsStaticGet(t) /\ task[t].wstage = "failed"
        /\ task[t].reply = Reply("response", Resp(200, "basic", "body1"))


(***************************************************************************)
(* C14: for every push event, whether its payload is absent, decodable as   *)
(* structured data, or not decodable, exactly one notification is          *)
(* displayed: each field present and non-empty in a decoded payload is     *)
(* used (title, body or else message, icon, image, tag, data), every other *)
(* field takes its default, an undecodable non-empty payload becomes the   *)
(* body with all other fields default, and the notification offers exactly *)
(* the actions view and close.                                             *)
(***************************************************************************)
Given(v) == v # Undefined /\ v # ""
Decodable(payload) == payload.kind \in {"object", "null", "scalar"}

C14_OneNotificationFromPayload ==
    notif.pc = "shown" =>
        /\ Len(notif.displayed) = 1
        /\ LET n == notif.displayed[1]
               p == notif.payload
               f == notif.payload.fields
           IN  /\ n.actions = <<"view", "close">>
               /\ n.badge = "/favicon.png"
               /\ Decodable(p) =>
                    /\ n.title = (IF Given(f.title) THEN f.title ELSE "Cerita Baru")
                    /\ n.body = (IF Given(f.body) THEN f.body
                                 ELSE IF Given(f.message) THEN f.message
                                 ELSE "Ada cerita baru yang ditambahkan!")
                    /\ n.icon = (IF Given(f.icon) THEN f.icon ELSE "/favicon.png")
                    /\ n.tag = (IF Given(f.tag) THEN f.tag ELSE "new-story")
                    /\ Given(f.image) => n.image = f.image
                    /\ f.data.defined => n.data = f.data
               /\ ~Decodable(p) =>
                    /\ n.title = "Cerita Baru"
                    /\ n.body = (IF p.kind # "none" /\ p.text # "" THEN p.text
                                 ELSE "Ada cerita baru yang ditambahkan!")
                    /\ n.icon = "/favicon.png"
                    /\ n.tag = "new-story"

(***************************************************************************)
(* C15: for every interaction with a displayed notification, the close     *)
(* action focuses, navigates and opens no window; any other action brings  *)
(* at most one window to the target state: it focuses the first open       *)
(* window of the application's own origin (navigating it only when the     *)
(* payload carried a target URL) and opens no window in that case, and it  *)
(* opens one window at the target URL (payload URL, else the application   *)
(* root) only when no own-origin window is open.                           *)
(***************************************************************************)
NoWindowTouched(n) == n.focused = <<>> /\ n.navigated = <<>> /\ n.opened = <<>>

C15_ClickState(n) ==
    /\ n.action = "close" => NoWindowTouched(n)
    /\ Len(n.focused) + Len(n.opened) <= 1
    /\ n.navigated # <<>> =>
          /\ n.focused # <<>>
          /\ n.data.url # NoUrl
          /\ n.navigated = <<[client |-> n.focused[1], url |-> n.data.url]>>

C15_ClickStep ==
    notif.pc = "matchAll" /\ notif'.pc # "matchAll" =>
        LET own == {i \in 1..Len(windows) : windows[i].origin = SELF_ORIGIN}
            target == IF notif.data.url # NoUrl THEN notif.data.url
                      ELSE Url(SELF_ORIGIN, "/#/")
        IN  /\ own # {} =>
                /\ notif'.opened = <<>>
                /\ \E i \in own : /\ \A j \in own : i <= j
                                  /\ notif'.focused = <<i>>
            /\ own = {} =>
                /\ notif'.focused = <<>>
                /\ notif'.opened \in {<<>>, <<target>>}
                /\ notif'.pc # "done" => notif'.opened = <<target>>

C15_AtMostOneWindow == [][C15_ClickState(notif') /\ C15_ClickStep]_vars

\* A click on a notification without url focused the second client, the
\* first one not being of the origin, and did not navigate it.
C15_Witness ==
    /\ notif.pc = "done"
    /\ notif.action = "view"
    /\ notif.data.url = NoUrl
    /\ Len(windows) = 2
    /\ windows[1] = BlankUrl
    /\ notif.focused = <<2>>
    /\ notif.navigated = <<>>


(***************************************************************************)
(* C16: the worker claims the clients only after the population of         *)
(* STATIC_CACHE has completed, successfully or not; clients.claim() never  *)
(* precedes the end of the population step.                                *)
(***************************************************************************)
C16_ClaimAfterPopulation == claimed => inst.pc \in {"fulfilled", "rejected"}

C16_Witness ==
    /\ swState = "activating"
    /\ claimed
    /\ inst.pc = "fulfilled"
    /\ \A k \in ShellUrls : Held(STATIC_CACHE, k)

(***************************************************************************)
(* C17: once the worker has claimed the clients, no cache-first request is *)
(* answered from an entry of a cache other than STATIC_CACHE and           *)
(* DYNAMIC_CACHE, in any interleaving of the activation's deletions with   *)
(* fetch events.                                                           *)
(***************************************************************************)
Holders(url) == {i \in DOMAIN cacheNames : cacheData[cacheNames[i]][url] # NoEntry}

C17_NoStaleEntryServed ==
    [][\A t \in Tasks :
        (claimed /\ task[t].pc = "cf_match" /\ task'[t].pc = "done"
            /\ task'[t].reply.kind = "response" /\ task'[t].net = 0)
        => \E i \in Holders(task[t].req.url) :
            /\ \A j \in Holders(task[t].req.url) : i <= j
            /\ cacheNames[i] \in {STATIC_CACHE, DYNAMIC_CACHE}]_vars

(***************************************************************************)
(* C18: the population of STATIC_CACHE is all-or-nothing: a population     *)
(* step that fails has added none of STATIC_ASSETS to the cache, and one   *)
(* that succeeds leaves an entry for every one of them.                    *)
(***************************************************************************)
C18_PopulationAllOrNothing ==
    [][inst.pc = "addAll" /\ inst'.pc # "addAll" =>
        /\ inst'.pc \in {"fulfilled", "rejected"}
        /\ inst'.pc = "rejected" => cacheData' = cacheData
        /\ inst'.pc = "fulfilled" =>
              \A k \in ShellUrls : cacheData'[STATIC_CACHE][k] # NoEntry]_vars

\* A failed population: the cache was created and holds no shell asset, and
\* the worker is redundant.
C18_Witness ==
    /\ inst.pc = "rejected"
    /\ swState = "redundant"
    /\ Exists(STATIC_CACHE)
    /\ \A k \in ShellUrls : ~Held(STATIC_CACHE, k)


(***************************************************************************)
(* C19: a record the application deleted or updated after the replay read  *)
(* the queue and before its write transaction commits is left as the       *)
(* application put it: the commit neither re-creates a deleted record nor  *)
(* replaces the other fields of a record with the values read earlier.     *)
(***************************************************************************)
C19_CommitKeepsLaterChanges ==
    [][sync.pc = "writing" /\ sync'.wresult = "complete" =>
        \A i \in Ids :
            /\ ~queue[i].present => ~queue'[i].present
            /\ queue[i].present =>
                  queue'[i].present /\ queue'[i].data = queue[i].data]_vars

(***************************************************************************)
(* C20: every replay started for the tag sync-stories finishes, resolved   *)
(* or rejected, for every outcome of opening the queue, reading it and     *)
(* committing the write, an aborted write transaction included: a replay   *)
(* that is still pending has a handler of its own left to run.             *)
(***************************************************************************)
C20_ReplayNeverStuck ==
    sync.settled = "pending" => sync.pc \in {"opening", "reading", "writing"}

====
